---- MODULE Spec2Model ----
(***************************************************************************)
(* Model of unified_converter.py: the WebM -> GIF conversion pipeline      *)
(* (convert_webm_to_gif) with its decoder generator (WebmDecoder), its     *)
(* encoder wrapper (GifWriter) and the two ffmpeg child processes, which   *)
(* run asynchronously with the orchestrating thread.                       *)
(***************************************************************************)
EXTENDS Integers, Sequences, FiniteSets, TLC

\* ------------------------------------------------------------------ bounds
\* Longest raw byte stream the decoder child writes to its stdout.
MaxLen == 12
\* Largest probed width and height.
MaxW == 2
MaxH == 1
\* Longest decoder output in the conversions followed to their end.
LiveLen == 6
\* Most pixels of a frame given to the masking on its own.
MaskPixels == 2
\* Times the masking is applied in a row.
MaxApplications == 2
\* Largest numerator and denominator of a probed frame rate, largest probed
\* duration and frame count.
MaxRate == 2
MaxDuration == 2
MaxFrames == 2

\* --------------------------------------------------------- program constants
\* analyze_black_pixels(sample_frames=10): `-frames:v 10` caps the sample.
SampleFrames == 10
\* analyze_black_pixels: a pixel is near-black when all channels are < 20.
NearBlack == 20
\* convert_black_to_transparent(frame, threshold=16) as called by the loop.
BlackThreshold == 16
\* alpha value of an opaque pixel (np.full(..., 255) / np.ones(...) * 255).
Opaque == 255
\* scale=min(320,width):min(240,height) of the sampling command.
SampleCapW == 320
SampleCapH == 240
\* get_info: fps when r_frame_rate is absent or its denominator is 0.
DefaultFps == 30
\* get_info: duration when the probe gives neither a duration nor nb_frames.
DefaultDuration == 10

Min(a, b) == IF a < b THEN a ELSE b

\* ----------------------------------------------------------------- frames
\* A frame is an ndarray of shape (h, w, c) of uint8; px is frame.tobytes(),
\* row-major, pixel after pixel, c bytes per pixel.
NoFrame == [h |-> 0, w |-> 0, c |-> 0, px |-> << >>]

MkFrame(h, w, c, bytes) == [h |-> h, w |-> w, c |-> c, px |-> bytes]

\* Byte i (1-based) of what the decoder child emits: a fixed pattern whose
\* values lie on both sides of the black threshold.
ByteAt(i) == (i * 7) % 40

DecoderOutput(len) == [i \in 1..len |-> ByteAt(i)]

\* Channel c (1..ch) of pixel p (1..h*w) of a frame.
Chan(f, p, c) == f.px[(p - 1) * f.c + c]

NumPixels(f) == f.h * f.w

\* np.concatenate([frame, alpha], axis=2) with alpha = 255 everywhere.
AddOpaqueAlpha(f) ==
    MkFrame(f.h, f.w, 4,
            [i \in 1..(NumPixels(f) * 4) |->
                IF i % 4 = 0 THEN Opaque
                ELSE f.px[((i - 1) \div 4) * 3 + ((i - 1) % 4) + 1]])

\* frame[:, :, :3]
DropAlpha(f) ==
    MkFrame(f.h, f.w, 3,
            [i \in 1..(NumPixels(f) * 3) |->
                f.px[((i - 1) \div 3) * 4 + ((i - 1) % 3) + 1]])

\* Variant: the comparison written as frame[:, :, :3] < threshold.
IsBlackStrict(f, p, threshold) ==
    \A c \in 1..3 : Chan(f, p, c) < threshold

\* np.all(frame[:, :, :3] <= threshold, axis=2) for pixel p
IsBlack(f, p, threshold) ==
    \A c \in 1..3 : Chan(f, p, c) <= threshold

\* Variant: `frame[black_mask, 3] -= 255` in uint8 arithmetic; it agrees with
\* the assignment of 0 wherever the alpha was 255.
convert_black_lowering_alpha(frame, threshold) ==
    LET f4 == IF frame.c = 3 THEN AddOpaqueAlpha(frame) ELSE frame
    IN  MkFrame(f4.h, f4.w, 4,
                [i \in 1..(NumPixels(f4) * 4) |->
                    IF i % 4 = 0 /\ IsBlack(f4, i \div 4, threshold)
                    THEN (f4.px[i] + 256 - Opaque) % 256 ELSE f4.px[i]])

\* frame = np.array(frame, copy=True); add the alpha channel to a 3-channel
\* frame; frame[black_mask, 3] = 0
convert_black_to_transparent(frame, threshold) ==
    LET f4 == IF frame.c = 3 THEN AddOpaqueAlpha(frame) ELSE frame
    IN  MkFrame(f4.h, f4.w, 4,
                [i \in 1..(NumPixels(f4) * 4) |->
                    IF i % 4 = 0 /\ IsBlack(f4, i \div 4, threshold)
                    THEN 0 ELSE f4.px[i]])

\* add_frame's "ensure correct frame format" step.
NormalizeForWriter(frame, transparency) ==
    IF transparency
    THEN IF frame.c = 3 THEN AddOpaqueAlpha(frame) ELSE frame
    ELSE IF frame.c = 4 THEN DropAlpha(frame) ELSE frame

\* ----------------------------------------------------- black pixel analysis
\* Raw rgb24 output of the sampling command: `nblack` near-black pixels
\* (19,19,19) followed by pixels that just miss the test (20,0,0), `len`
\* bytes in all.
SampleData(len, nblack) ==
    [i \in 1..len |->
        IF (i - 1) \div 3 < nblack THEN NearBlack - 1
        ELSE IF (i - 1) % 3 = 0 THEN NearBlack ELSE 0]

\* The counting loop of analyze_black_pixels over complete frames only.
RECURSIVE CountBlack(_, _, _)
CountBlack(data, i, frame_size) ==
    IF i + frame_size > Len(data) THEN [black |-> 0, pixels |-> 0]
    ELSE LET rest == CountBlack(data, i + frame_size, frame_size)
             here == Cardinality({p \in 1..(frame_size \div 3) :
                        \A c \in 1..3 : data[i + (p - 1) * 3 + c] < NearBlack})
         IN  [black |-> here + rest.black,
              pixels |-> frame_size \div 3 + rest.pixels]

\* A ratio as numerator over denominator; 0.0 is 0/1.
Zero == [num |-> 0, den |-> 1]

\* ------------------------------------------------- frame rate and duration
\* fps of get_info (lines 130-136) as a ratio: r_frame_rate is absent
\* (default '30/1'), of the form num/den, or a plain number.
ParseFps(rate) ==
    IF rate.form = "absent" THEN [num |-> DefaultFps, den |-> 1]
    ELSE IF rate.form = "ratio"
    THEN IF rate.den # 0 THEN [num |-> rate.num, den |-> rate.den]
         ELSE [num |-> DefaultFps, den |-> 1]
    ELSE [num |-> rate.num, den |-> 1]

\* duration as lines 139-143 leave it: the format's if the format has one,
\* else the stream's, else None.
FirstDuration(data) ==
    IF data.format_duration.present THEN data.format_duration
    ELSE data.stream_duration

\* get_info from the frame-rate parse on (lines 130-164): what it returns or
\* raises for the fields of the probe's JSON.
get_info(data) ==
    LET fps == ParseFps(data.rate)
        d == FirstDuration(data)
    IN  IF ~d.present \/ d.value <= 0
        THEN IF data.nb_frames.present
             THEN IF fps.num = 0
                  THEN [status |-> "ZeroDivisionError", fps |-> fps,
                        duration |-> [num |-> 0, den |-> 0]]
                  ELSE [status |-> "returned", fps |-> fps,
                        duration |-> [num |-> data.nb_frames.value * fps.den,
                                      den |-> fps.num]]
             ELSE [status |-> "returned", fps |-> fps,
                   duration |-> [num |-> DefaultDuration, den |-> 1]]
        ELSE [status |-> "returned", fps |-> fps,
              duration |-> [num |-> d.value, den |-> 1]]

\* analyze_black_pixels after the sampling process has run: returncode and
\* stdout of the process are the inputs.
analyze_black_pixels(returncode, data, width, height) ==
    IF returncode # 0 THEN Zero
    ELSE LET frame_size == Min(SampleCapW, width) * Min(SampleCapH, height) * 3
             t == CountBlack(data, 0, frame_size)
         IN  IF t.pixels > 0 THEN [num |-> t.black, den |-> t.pixels] ELSE Zero

\* Variant: the comparison written as black_ratio >= 0.1.
AtLeastTenth(r) == r.num * 10 >= r.den

\* black_ratio > 0.1
ExceedsTenth(r) == r.num * 10 > r.den

\* ------------------------------------------------------------------- plan
\* Lines 390-407 of convert_webm_to_gif: the transparency decision.
Plan(has_alpha, black_ratio) ==
    IF has_alpha
    THEN [use_transparency |-> TRUE, convert_black |-> FALSE]
    ELSE IF ExceedsTenth(black_ratio)
         THEN [use_transparency |-> TRUE, convert_black |-> TRUE]
         ELSE [use_transparency |-> FALSE, convert_black |-> FALSE]

\* decode_frames: channels of the requested pixel format.
DecoderChannels(has_alpha, use_alpha) == IF has_alpha \/ use_alpha THEN 4 ELSE 3

\* Variant: the encoder is always started with pix_fmt rgb24.
EncoderAlwaysRgb(transparency) == 3

\* _start_ffmpeg: channels of the pixel format the encoder is started with.
EncoderChannels(transparency) == IF transparency THEN 4 ELSE 3


\* ------------------------------------------------------------------ state
VARIABLES
    pc,            \* position of the thread running convert_webm_to_gif
    visited,       \* the conversion states entered so far, in order
    err,           \* the exception convert_webm_to_gif is raising, if any
    inputExists,   \* os.path.exists(webm_path)
    fileExists,    \* gif_path.exists()
    probe,         \* what ffprobe returned: code, parsable, video streams
    info,          \* decoder.get_info()
    sample,        \* what the sampling process returned: code, whole frames
    black_ratio,   \* result of decoder.analyze_black_pixels()
    plan,          \* use_transparency, convert_black
    frame_count,   \* the loop's frame_count
    frame,         \* the loop's current frame
    gen,           \* the decode_frames generator: unstarted, running, suspended, finished
    decProc,       \* decoder child: none, running, exited
    decLen,        \* number of bytes the decoder child writes in all
    decPos,        \* bytes of the decoder's output read so far
    decSig,        \* strongest signal sent to the decoder: none, term, kill
    decReady,      \* the decoder's pipe holds what the next read waits for
    yielded,       \* frames yielded by decode_frames, in order
    wProcess,      \* writer.process: "None" or "Popen"
    wFrameCount,   \* writer.frame_count
    wShape,        \* writer._width, writer._height and the started pix_fmt
    encProc,       \* encoder child: none, running, exited
    encStdin,      \* pipe to the encoder: none, open, full, closed, broken
    encExit,       \* returncode of the encoder child (-1: none yet)
    encIn,         \* the writes the encoder's stdin received, in order
    encOpenedOut,  \* the encoder child has opened the output path
    hadOutput,     \* gif_path existed when convert_webm_to_gif was called
    args,          \* main: parsed command line (input, output)
    dirFiles,      \* main: the directory's entries, sorted by name
    argGif,        \* main: state of the output file of each named input
    mainPc,        \* main: position of main()
    argIdx,        \* main: index of the current input_arg
    work,          \* main: files of the current listing still to process
    discovered,    \* main: files found or named, in order
    attempts,      \* main: calls of process_single_file, in order
    successful,    \* main: the success counter
    exitCode,      \* main: value returned to sys.exit (-1: still running)
    mFrame,        \* masking: the frame convert_black_to_transparent is given
    mThreshold,    \* masking: its threshold
    mOut,          \* masking: the results of its successive applications
    pData,         \* get_info: the fields of ffprobe's JSON it reads
    pInfo          \* get_info: outcome, fps and duration

vars == <<pc, visited, err, inputExists, fileExists, probe, info, sample, black_ratio, plan,
          frame_count, frame, gen, decProc, decLen, decPos, decSig, decReady,
          yielded, wProcess, wFrameCount, wShape, encProc, encStdin, encExit,
          encIn, encOpenedOut, hadOutput, args, dirFiles, argGif, mainPc, argIdx, work,
          discovered, attempts, successful, exitCode, mFrame, mThreshold,
          mOut, pData, pInfo>>

probeVars == <<probe, info, sample, black_ratio, plan>>
decVars == <<gen, decProc, decPos, decSig, decReady, yielded>>
encVars == <<wProcess, wFrameCount, wShape, encProc, encStdin, encExit, encIn,
             encOpenedOut>>
mainVars == <<args, dirFiles, argGif, mainPc, argIdx, work, discovered,
              attempts, successful, exitCode>>
\* What no step of a conversion changes.
fnVars == <<mFrame, mThreshold, mOut, pData, pInfo>>
envVars == <<inputExists, decLen, hadOutput, mainVars, fnVars>>
\* Everything convert_webm_to_gif and its child processes work on.
convVars == <<pc, visited, err, inputExists, fileExists, probe, info, sample,
              black_ratio, plan, frame_count, frame, gen, decProc, decLen, decPos,
              decSig, decReady, yielded, wProcess, wFrameCount, wShape, encProc, encStdin,
              encExit, encIn, encOpenedOut, hadOutput>>

NoProbe == [returncode |-> 0 - 1, parsable |-> FALSE, streams |-> 0]
NoInfo == [width |-> 0, height |-> 0, has_alpha |-> FALSE]
NoRatio == [num |-> 0, den |-> 0]
NoSample == [returncode |-> 0 - 1, frames |-> 0]
NoPlan == [use_transparency |-> FALSE, convert_black |-> FALSE]
NoShape == [width |-> 0, height |-> 0, channels |-> 0]
NoErr == [kind |-> "none", index |-> 0 - 1, cause |-> "none", code |-> 0]

Error(kind) == [kind |-> kind, index |-> 0 - 1, cause |-> "none", code |-> 0]

Absent == [present |-> FALSE, value |-> 0]
Present(v) == [present |-> TRUE, value |-> v]
NoData == [rate |-> [form |-> "none", num |-> 0, den |-> 0],
           format_duration |-> Absent, stream_duration |-> Absent,
           nb_frames |-> Absent]
NoVideoInfo == [status |-> "none", fps |-> NoRatio, duration |-> NoRatio]

\* Neither function is being followed on its own.
FnIdle ==
    /\ mFrame = NoFrame
    /\ mThreshold = 0
    /\ mOut = << >>
    /\ pData = NoData
    /\ pInfo = NoVideoInfo


\* Variant: frame_count counted up before the frame was forwarded.
FrameProcessingErrorCountedEarly(count, cause) ==
    [kind |-> "FrameProcessingError", index |-> count + 1, cause |-> cause,
     code |-> 0]

\* RuntimeError(f"Frame processing error at frame {frame_count}: {frame_error}")
FrameProcessingError(count, cause) ==
    [kind |-> "FrameProcessingError", index |-> count, cause |-> cause, code |-> 0]

\* RuntimeError(f"FFmpeg failed with code {self.process.returncode}")
EncoderFailed(returncode) ==
    [kind |-> "EncoderFailed", index |-> 0 - 1, cause |-> "none", code |-> returncode]

\* The conversion state (section 4.7 of the design) a position belongs to.
StateOf(p) ==
    CASE p \in {"start", "probe"} -> "Probing"
      [] p = "analyze" -> "Analyzing"
      [] p = "plan" -> "Planning"
      [] p \in {"pull", "transform", "add", "write"} -> "StreamingConvert"
      [] p \in {"close", "wait", "stat"} -> "Finalizing"
      [] p = "done" -> "Done"
      [] p \in {"except", "failed"} -> "Failed"

\* Move the thread to position p, recording a change of conversion state.
Goto(p) ==
    /\ pc' = p
    /\ visited' = IF StateOf(p) = visited[Len(visited)] THEN visited
                  ELSE Append(visited, StateOf(p))

\* The `except Exception as e` clause of convert_webm_to_gif is entered with e.
Raise(e) ==
    /\ Goto("except")
    /\ err' = e

\* main() has not been entered.
MainIdle ==
    /\ args = [input |-> << >>, output |-> FALSE]
    /\ dirFiles = << >>
    /\ argGif = << >>
    /\ mainPc = "idle"
    /\ argIdx = 0
    /\ work = << >>
    /\ discovered = << >>
    /\ attempts = << >>
    /\ successful = 0
    /\ exitCode = 0 - 1

\* convert_webm_to_gif is about to be called: the input exists or not, a file
\* is at the output path or not, and the decoder would emit len bytes.
ConvStart(exists, out, len) ==
    /\ pc = "start"
    /\ visited = <<"Probing">>
    /\ err = NoErr
    /\ inputExists = exists
    /\ fileExists = out
    /\ hadOutput = fileExists
    /\ probe = NoProbe
    /\ info = NoInfo
    /\ sample = NoSample
    /\ black_ratio = NoRatio
    /\ plan = NoPlan
    /\ frame_count = 0
    /\ frame = NoFrame
    /\ gen = "unstarted"
    /\ decProc = "none"
    /\ decLen = len
    /\ decPos = 0
    /\ decSig = "none"
    /\ decReady = FALSE
    /\ yielded = << >>
    /\ wProcess = "None"
    /\ wFrameCount = 0
    /\ wShape = NoShape
    /\ encProc = "none"
    /\ encStdin = "none"
    /\ encExit = 0 - 1
    /\ encIn = << >>
    /\ encOpenedOut = FALSE

Init ==
    /\ MainIdle
    /\ FnIdle
    /\ \E exists \in BOOLEAN, out \in BOOLEAN, len \in 0..MaxLen :
          ConvStart(exists, out, len)

\* ------------------------------------------------ probing, analysis, plan
\* decoder = WebmDecoder(str(webm_path))
Construct ==
    /\ pc = "start"
    /\ IF inputExists
       THEN Goto("probe") /\ err' = err
       ELSE Raise(Error("FileNotFoundError"))
    /\ UNCHANGED <<fileExists, probeVars, frame_count, frame, decVars, encVars,
                   envVars>>

\* Variant: the analysis runs whether or not the source has alpha.
AlwaysAnalyze(has_alpha) == "analyze"

\* `if info['has_alpha']: ... else: black_ratio = decoder.analyze_black_pixels()`
AfterProbe(has_alpha) == IF has_alpha THEN "plan" ELSE "analyze"

\* Variant: the test for an empty stream list is left out.
ProbeCheckWithoutStreamTest(returncode, parsable, streams) ==
    IF returncode # 0 THEN "ffprobe failed"
    ELSE IF ~parsable THEN "Failed to parse ffprobe output"
    ELSE "ok"

\* Lines 117-126 of get_info: the RuntimeError raised for what ffprobe
\* returned (exit code, whether stdout is JSON, number of video streams).
ProbeCheck(returncode, parsable, streams) ==
    IF returncode # 0 THEN "ffprobe failed"
    ELSE IF ~parsable THEN "Failed to parse ffprobe output"
    ELSE IF streams = 0 THEN "No video stream found in file"
    ELSE "ok"

ProbeError(message) ==
    [kind |-> "ProbeError", index |-> 0 - 1, cause |-> message, code |-> 0]

\* info = decoder.get_info(): ffprobe cannot be started, or it runs and
\* get_info raises for a failed probe or returns the first video stream.
GetInfo ==
    /\ pc = "probe"
    /\ \/ /\ Raise(Error("OSError"))
          /\ UNCHANGED <<probe, info>>
       \/ \E rc \in {0, 1}, parsable \in BOOLEAN, streams \in {0, 1} :
            LET check == ProbeCheck(rc, parsable, streams)
            IN  /\ rc # 0 => ~parsable /\ streams = 0
                /\ ~parsable => streams = 0
                /\ probe' = [returncode |-> rc, parsable |-> parsable,
                             streams |-> streams]
                /\ IF check # "ok"
                   THEN Raise(ProbeError(check)) /\ info' = info
                   ELSE IF streams = 0
                   THEN \* stream = data['streams'][0]
                        Raise(Error("IndexError")) /\ info' = info
                   ELSE \E w \in 1..MaxW, h \in 1..MaxH, a \in BOOLEAN :
                          /\ info' = [width |-> w, height |-> h, has_alpha |-> a]
                          /\ Goto(AfterProbe(a))
                          /\ err' = err
    /\ UNCHANGED <<fileExists, sample, black_ratio, plan, frame_count, frame,
                   decVars, encVars, envVars>>

\* Numbers of complete frames the sampling process is made to return.
SampleCounts == {0, 1, SampleFrames}

\* black_ratio = decoder.analyze_black_pixels(): subprocess.run cannot start
\* ffmpeg (OSError), or it runs to its end with a return code and an output.
Analyze ==
    /\ pc = "analyze"
    /\ \/ /\ Raise(Error("OSError"))
          /\ UNCHANGED <<sample, black_ratio>>
       \/ \E rc \in {0, 1}, k \in SampleCounts, tail \in {0, 1} :
          \E nb \in {0, 1, 2, k * info.width * info.height} :
            /\ nb <= k * info.width * info.height
            /\ sample' = [returncode |-> rc, frames |-> k]
            /\ black_ratio' = analyze_black_pixels(rc,
                   SampleData(k * info.width * info.height * 3 + tail, nb),
                   info.width, info.height)
            /\ Goto("plan")
            /\ err' = err
    /\ UNCHANGED <<fileExists, probe, info, plan, frame_count, frame, decVars, encVars,
                   envVars>>

\* use_transparency / convert_black are decided; the progress bar and the
\* GifWriter are constructed; frame_count = 0.
MakePlan ==
    /\ pc = "plan"
    /\ plan' = Plan(info.has_alpha, black_ratio)
    /\ frame_count' = 0
    /\ Goto("pull")
    /\ UNCHANGED <<err, fileExists, probe, info, sample, black_ratio, frame, decVars,
                   encVars, envVars>>

\* ---------------------------------------------------------- decode_frames
\* frame_size = width * height * channels
FrameSize(i, use_alpha) ==
    i.width * i.height * DecoderChannels(i.has_alpha, use_alpha)

\* process.stdout.read(frame_size) on the buffered pipe: frame_size bytes, or
\* what is left before end of file.
Read(len, pos, n) == [i \in 1..Min(n, len - pos) |-> ByteAt(pos + i)]

\* Variant: only an empty read ends the sequence.
EmptyRead(raw, frame_size) == Len(raw) = 0

\* `if len(raw_frame) != frame_size: break`
ShortRead(raw, frame_size) == Len(raw) # frame_size

\* Variant: the child is terminated but never killed after the grace period.
DisposeWithoutKill(proc, sig, obeys) ==
    IF proc = "running"
    THEN [proc |-> IF obeys THEN "exited" ELSE "running", sig |-> "term"]
    ELSE [proc |-> proc, sig |-> sig]

\* The finally clause of decode_frames: terminate a running child, wait up to
\* the grace period, kill it if it has not exited (obeys = FALSE) and reap it.
DisposeDecoder(proc, sig, obeys) ==
    IF proc = "running"
    THEN [proc |-> "exited", sig |-> IF obeys THEN "term" ELSE "kill"]
    ELSE [proc |-> proc, sig |-> sig]

\* The generator's frame leaves its try block (break, exception, or close()
\* of the suspended generator): the finally clause runs.
FinishGenerator(how) ==
    \E obeys \in BOOLEAN :
        LET d == DisposeDecoder(decProc, decSig, obeys)
        IN  /\ gen' = how
            /\ decProc' = d.proc
            /\ decSig' = d.sig

\* An exception leaves the for loop of convert_webm_to_gif: a generator still
\* suspended at its yield is released and closed while the stack unwinds, then
\* the handler of line 430 raises the error that carries frame_count.
LoopAbort(cause) ==
    /\ IF gen = "suspended" THEN FinishGenerator("closed")
       ELSE UNCHANGED <<gen, decProc, decSig>>
    /\ Raise(FrameProcessingError(frame_count, cause))

\* The first next() on decode_frames runs the generator up to its first
\* read: subprocess.Popen spawns the decoder child, or raises.
StartGenerator ==
    /\ pc = "pull"
    /\ gen = "unstarted"
    /\ \/ \* subprocess.Popen cannot start ffmpeg
          /\ gen' = "raised"
          /\ Raise(FrameProcessingError(frame_count, "OSError"))
          /\ decProc' = decProc
       \/ /\ gen' = "running"
          /\ decProc' = "running"
          /\ UNCHANGED <<pc, visited, err>>
    /\ UNCHANGED <<fileExists, probeVars, frame_count, frame, decPos, decSig,
                   decReady, yielded, encVars, envVars>>

\* process.stdout.read(frame_size) returns once the child has written that
\* many bytes or closed its output; until then the caller is blocked.
ReadReturns(ready, proc) == ready \/ proc = "exited"

\* next() on decode_frames from the read on: the read returns, and the
\* generator yields a frame, ends the sequence, or raises.
Pull ==
    /\ pc = "pull"
    /\ gen \in {"running", "suspended"}
    /\ ReadReturns(decReady, decProc)
    /\ LET frame_size == FrameSize(info, plan.convert_black)
           raw == Read(decLen, decPos, frame_size)
       IN  \/ \* reading or copying the frame raises inside the try block
              /\ FinishGenerator("raised")
              /\ Raise(FrameProcessingError(frame_count, "MemoryError"))
              /\ UNCHANGED <<decPos, decReady, yielded, frame>>
           \/ \* short read: the sequence ends, the loop is left normally
              /\ ShortRead(raw, frame_size)
              /\ FinishGenerator("exhausted")
              /\ Goto("close")
              /\ UNCHANGED <<err, decPos, decReady, yielded, frame>>
           \/ \* a whole frame: yield it
              /\ ~ShortRead(raw, frame_size)
              /\ gen' = "suspended"
              /\ decPos' = decPos + Len(raw)
              /\ decReady' = FALSE
              /\ frame' = MkFrame(info.height, info.width,
                                  DecoderChannels(info.has_alpha, plan.convert_black),
                                  raw)
              /\ yielded' = Append(yielded, frame')
              /\ Goto("transform")
              /\ UNCHANGED <<err, decProc, decSig>>
    /\ UNCHANGED <<fileExists, probeVars, frame_count, encVars, envVars>>

\* The decoder child writes the bytes the next read waits for to its stdout,
\* or closes it after the last byte.
DecoderEmit ==
    /\ decProc = "running"
    /\ ~decReady
    /\ decReady' = TRUE
    /\ UNCHANGED <<pc, visited, err, fileExists, probeVars, frame_count, frame,
                   gen, decProc, decPos, decSig, yielded, encVars, envVars>>

\* The decoder child exits by itself (its output stays readable in the pipe).
DecoderExit ==
    /\ decProc = "running"
    /\ decProc' = "exited"
    /\ UNCHANGED <<pc, visited, err, fileExists, probeVars, frame_count, frame,
                   gen, decPos, decSig, decReady, yielded, encVars, envVars>>

\* ------------------------------------------------------- the loop's body
\* if convert_black: frame = convert_black_to_transparent(frame, threshold=16)
Transform ==
    /\ pc = "transform"
    /\ \/ /\ frame' = IF plan.convert_black
                      THEN convert_black_to_transparent(frame, BlackThreshold)
                      ELSE frame
          /\ Goto("add")
          /\ UNCHANGED <<err, gen, decProc, decSig>>
       \/ /\ plan.convert_black
          /\ LoopAbort("MemoryError")
          /\ frame' = frame
    /\ UNCHANGED <<fileExists, probeVars, frame_count, decPos, decReady, yielded, encVars,
                   envVars>>

\* writer.add_frame(frame) up to the write: start the encoder child on the
\* first frame, then bring the frame to the encoder's channel count.
AddFrame ==
    /\ pc = "add"
    /\ \/ \* subprocess.Popen of _start_ffmpeg cannot start ffmpeg
          /\ wProcess = "None"
          /\ wShape' = [width |-> frame.w, height |-> frame.h,
                        channels |-> EncoderChannels(plan.use_transparency)]
          /\ LoopAbort("OSError")
          /\ UNCHANGED <<frame, wProcess, encProc, encStdin>>
       \/ /\ IF wProcess = "None"
             THEN /\ wShape' = [width |-> frame.w, height |-> frame.h,
                                channels |-> EncoderChannels(plan.use_transparency)]
                  /\ wProcess' = "Popen"
                  /\ encProc' = "running"
                  /\ encStdin' = "open"
             ELSE UNCHANGED <<wShape, wProcess, encProc, encStdin>>
          /\ frame' = NormalizeForWriter(frame, plan.use_transparency)
          /\ Goto("write")
          /\ UNCHANGED <<err, gen, decProc, decSig>>
    /\ UNCHANGED <<fileExists, probeVars, frame_count, decPos, decReady, yielded,
                   wFrameCount, encExit, encIn, encOpenedOut, envVars>>

\* Variant: the frame's bytes go into the pipe twice.
PipeWriteTwice(pipe, f) == Append(Append(pipe, f.px), f.px)

\* self.process.stdin.write(frame.tobytes()); self.process.stdin.flush()
PipeWrite(pipe, f) == Append(pipe, f.px)

\* stdin.write / flush of add_frame, then progress.update(1), frame_count += 1.
\* While the pipe is full and the child alive the write is blocked; a write
\* that goes through may fill the pipe.
Write ==
    /\ pc = "write"
    /\ \/ \* BrokenPipeError and poll() is not None
          /\ encProc = "exited"
          /\ LoopAbort("FFmpeg process died")
          /\ UNCHANGED <<frame_count, wFrameCount, encIn, encStdin>>
       \/ \* BrokenPipeError while the child is alive: re-raised as it is
          /\ encProc = "running"
          /\ encStdin = "broken"
          /\ LoopAbort("BrokenPipeError")
          /\ UNCHANGED <<frame_count, wFrameCount, encIn, encStdin>>
       \/ /\ encProc = "running"
          /\ encStdin = "open"
          /\ encIn' = PipeWrite(encIn, frame)
          /\ encStdin' \in {"open", "full"}
          /\ wFrameCount' = wFrameCount + 1
          /\ frame_count' = frame_count + 1
          /\ Goto("pull")
          /\ UNCHANGED <<err, gen, decProc, decSig>>
    /\ UNCHANGED <<fileExists, probeVars, frame, decPos, decReady, yielded, wProcess,
                   wShape, encProc, encExit, encOpenedOut, envVars>>

\* ------------------------------------------------------------ GifWriter.close
\* writer.close(), first half: nothing to do without a process, else close the
\* child's stdin and block in process.wait().
Close ==
    /\ pc = "close"
    /\ IF wProcess = "None"
       THEN /\ Goto("stat")
            /\ encStdin' = encStdin
       ELSE /\ Goto("wait")
            /\ encStdin' = "closed"
    /\ UNCHANGED <<err, fileExists, probeVars, frame_count, frame, decVars,
                   wProcess, wFrameCount, wShape, encProc, encExit, encIn,
                   encOpenedOut, envVars>>

\* `if self.process.returncode != 0: raise`
CloseFails(returncode) == returncode # 0

\* Variant: the wait returns after a timeout whether or not the child exited.
WaitReturnsAfterTimeout(proc) == TRUE

\* self.process.wait() has no timeout: it returns once the child has exited.
WaitReturns(proc) == proc = "exited"

\* writer.close(), second half: process.wait() returns once the child exited.
Wait ==
    /\ pc = "wait"
    /\ WaitReturns(encProc)
    /\ IF CloseFails(encExit)
       THEN /\ Raise(EncoderFailed(encExit))
            /\ wProcess' = wProcess
       ELSE /\ Goto("stat")
            /\ wProcess' = "None"
            /\ err' = err
    /\ UNCHANGED <<fileExists, probeVars, frame_count, frame, decVars,
                   wFrameCount, wShape, encProc, encStdin, encExit, encIn,
                   encOpenedOut, envVars>>

\* progress.close(); file_size = gif_path.stat().st_size; return gif_path
Stat ==
    /\ pc = "stat"
    /\ IF fileExists
       THEN Goto("done") /\ err' = err
       ELSE Raise(Error("FileNotFoundError"))
    /\ UNCHANGED <<fileExists, probeVars, frame_count, frame, decVars, encVars,
                   envVars>>

\* `if gif_path.exists(): gif_path.unlink()` of the except clause.
Unlink(exists) == FALSE

\* except Exception as e: print, remove the output file, re-raise.
Except ==
    /\ pc = "except"
    /\ fileExists' = Unlink(fileExists)
    /\ Goto("failed")
    /\ UNCHANGED <<err, probeVars, frame_count, frame, decVars, encVars, envVars>>

\* ----------------------------------------------------- the encoder child
\* ffmpeg -y ... output_path: the child creates (or truncates) the output file.
EncoderOpenOutput ==
    /\ encProc = "running"
    /\ ~encOpenedOut
    /\ encOpenedOut' = TRUE
    /\ fileExists' = TRUE
    /\ UNCHANGED <<pc, visited, err, probeVars, frame_count, frame, decVars,
                   wProcess, wFrameCount, wShape, encProc, encStdin, encExit,
                   encIn, envVars>>

\* The child reads from its stdin: a full pipe has room again.
EncoderDrains ==
    /\ encProc = "running"
    /\ encStdin = "full"
    /\ encStdin' = "open"
    /\ UNCHANGED <<pc, visited, err, fileExists, probeVars, frame_count, frame,
                   decVars, wProcess, wFrameCount, wShape, encProc, encExit,
                   encIn, encOpenedOut, envVars>>

\* The child closes its stdin while it keeps running.
EncoderStopsReading ==
    /\ encProc = "running"
    /\ encStdin \in {"open", "full"}
    /\ encStdin' = "broken"
    /\ UNCHANGED <<pc, visited, err, fileExists, probeVars, frame_count, frame,
                   decVars, wProcess, wFrameCount, wShape, encProc, encExit,
                   encIn, encOpenedOut, envVars>>

\* The child exits: with code 0 only after end of input with its output file
\* written, with a non-zero code at any time.
EncoderExit ==
    /\ encProc = "running"
    /\ \E code \in {0, 1} :
        /\ code = 0 => encStdin = "closed" /\ encOpenedOut
        /\ encExit' = code
    /\ encProc' = "exited"
    /\ UNCHANGED <<pc, visited, err, fileExists, probeVars, frame_count, frame,
                   decVars, wProcess, wFrameCount, wShape, encStdin, encIn,
                   encOpenedOut, envVars>>

\* ------------------------------------------------------------ specification
Next ==
    \/ Construct
    \/ GetInfo
    \/ Analyze
    \/ MakePlan
    \/ StartGenerator
    \/ Pull
    \/ DecoderEmit
    \/ Transform
    \/ AddFrame
    \/ Write
    \/ Close
    \/ Wait
    \/ Stat
    \/ Except
    \/ DecoderExit
    \/ EncoderOpenOutput
    \/ EncoderDrains
    \/ EncoderStopsReading
    \/ EncoderExit

Spec == Init /\ [][Next]_vars

\* ------------------------------------------------------------ termination
\* The steps of the thread that runs convert_webm_to_gif.
Orchestrator ==
    \/ Construct
    \/ GetInfo
    \/ Analyze
    \/ MakePlan
    \/ StartGenerator
    \/ Pull
    \/ Transform
    \/ AddFrame
    \/ Write
    \/ Close
    \/ Wait
    \/ Stat
    \/ Except

\* The encoder child exits after its input was closed.
EncoderExitAfterClose == EncoderExit /\ encStdin = "closed"

\* The thread takes its next step whenever it is not blocked; the decoder
\* child writes or closes its output; the encoder child keeps reading; and it
\* exits once its input is closed.
Fairness ==
    /\ WF_vars(Orchestrator)
    /\ WF_vars(DecoderEmit)
    /\ WF_vars(EncoderDrains)
    /\ WF_vars(EncoderExitAfterClose)

InitLive ==
    /\ MainIdle
    /\ FnIdle
    /\ \E exists \in BOOLEAN, out \in BOOLEAN, len \in 0..LiveLen :
          ConvStart(exists, out, len)

SpecLive == InitLive /\ [][Next]_vars /\ Fairness

\* ------------------------------------------------------------------ claims
Range(seq) == {seq[i] : i \in 1..Len(seq)}

Ended == pc \in {"done", "failed"}

\* C1: whenever convert_webm_to_gif has ended in failure, the error is
\* propagated and, from the moment it returns onward, no file exists at the
\* output path, whatever the encoder process does afterwards.
C1_NoOutputAfterFailure ==
    pc = "failed" => err.kind # "none" /\ ~fileExists

\* C2: in every conversion in which the encoder process was spawned, its stdin
\* has been closed and its exit awaited by the time convert_webm_to_gif
\* returns or raises, so no encoder process is running after the job ended.
C2_EncoderClosedAtEnd ==
    Ended /\ encProc # "none" => encStdin = "closed" /\ encProc = "exited"

\* C3: however consumption of decode_frames ends (exhausted, or abandoned
\* because the loop body raised, or an error inside the generator), the decoder
\* child is terminated if still running and killed after the grace period, so
\* no decoder process is running once the generator has finished, and the
\* generator has finished once the conversion has ended.
C3_DecoderNeverLeaks ==
    /\ gen \in {"exhausted", "closed", "raised"} => decProc # "running"
    /\ decSig # "none" => decProc = "exited"
    /\ pc \in {"close", "wait", "stat", "done", "except", "failed"} =>
          gen \notin {"running", "suspended"} /\ decProc # "running"

\* C3 witness: the sequence was abandoned after two frames and the child,
\* which ignored the termination request, was killed; the job has ended.
C3_Witness ==
    /\ pc = "failed"
    /\ gen = "closed"
    /\ Len(yielded) = 2
    /\ decSig = "kill"
    /\ decProc = "exited"

\* C4: for a decoder output of L bytes and frame size S, decode_frames yields
\* frames that are the consecutive S-byte slices of the output, in stream
\* order, never more than floor(L/S) of them; once the sequence is exhausted
\* exactly floor(L/S) were yielded and no error was raised by the short read.
C4_YieldsWholeFramesInOrder ==
    LET S == FrameSize(info, plan.convert_black)
        out == DecoderOutput(decLen)
    IN  info # NoInfo =>
          /\ \A k \in 1..Len(yielded) :
                /\ Len(yielded[k].px) = S
                /\ yielded[k].px = SubSeq(out, (k - 1) * S + 1, k * S)
                /\ yielded[k].h * yielded[k].w * yielded[k].c = S
          /\ Len(yielded) <= decLen \div S
          /\ gen = "exhausted" =>
                /\ Len(yielded) = decLen \div S
                /\ pc \in {"close", "wait", "stat"} => err = NoErr

\* C4 witness: the sequence ended normally after two whole frames with a
\* partial frame left in the stream.
C4_Witness ==
    /\ gen = "exhausted"
    /\ Len(yielded) = 2
    /\ decLen % FrameSize(info, plan.convert_black) # 0

Rank(st) ==
    CASE st = "Probing" -> 1
      [] st = "Analyzing" -> 2
      [] st = "Planning" -> 3
      [] st = "StreamingConvert" -> 4
      [] st = "Finalizing" -> 5
      [] st \in {"Done", "Failed"} -> 6

Canonical(has_alpha) ==
    IF has_alpha
    THEN <<"Probing", "Planning", "StreamingConvert", "Finalizing", "Done">>
    ELSE <<"Probing", "Analyzing", "Planning", "StreamingConvert", "Finalizing",
           "Done">>

\* C5: the states entered so far are, in this order, Probing, Analyzing,
\* Planning, StreamingConvert, Finalizing and then Done or Failed (never both):
\* apart from a final Failed they are a prefix of that list with no state left
\* out, except Analyzing, which is left out exactly when the source has alpha;
\* no decoder or encoder process exists before StreamingConvert is entered;
\* Done is reached only after close returned normally in Finalizing.
C5_StateOrder ==
    LET n == Len(visited)
        m == IF visited[n] = "Failed" THEN n - 1 ELSE n
    IN  /\ visited[n] = StateOf(pc)
        /\ \A i, j \in 1..n : i < j => Rank(visited[i]) < Rank(visited[j])
        /\ SubSeq(visited, 1, m) = SubSeq(Canonical(info.has_alpha), 1, m)
        /\ (gen # "unstarted" \/ decProc # "none" \/ encProc # "none") =>
              "StreamingConvert" \in Range(visited)
        /\ pc = "done" =>
              /\ wProcess = "None"
              /\ encProc # "none" =>
                    encStdin = "closed" /\ encProc = "exited" /\ encExit = 0

\* C5 witness: a conversion of a source without alpha has reached Done through
\* all six states, with both child processes spawned.
C5_Witness ==
    /\ pc = "done"
    /\ Len(visited) = 6
    /\ encProc = "exited"
    /\ decProc = "exited"

\* C6: no failure of the black-pixel analysis (the sampling process cannot be
\* started, exits non-zero, or returns no complete frame) moves the job to
\* Failed: Analyzing is always followed by Planning, and after a failed
\* sampling the ratio is 0.0 and the plan infers no transparency.
C6_AnalyzerNeverFatal ==
    /\ \A i \in 1..(Len(visited) - 1) :
          visited[i] = "Analyzing" => visited[i + 1] = "Planning"
    /\ (sample # NoSample /\ (sample.returncode # 0 \/ sample.frames = 0)) =>
          /\ black_ratio = Zero
          /\ "StreamingConvert" \in Range(visited) =>
                ~plan.use_transparency /\ ~plan.convert_black

\* C7: once the plan is made it equals the planner decision table: has_alpha
\* gives use_transparency and not convert_black; otherwise a black ratio
\* strictly above 0.10 gives both, and a ratio up to and including 0.10 gives
\* neither; convert_black implies use_transparency; and a frame masked by the
\* loop has alpha 0 exactly on the pixels whose colours are all <= 16 (the
\* other alphas being those the decoder delivered).
C7_PlanMatchesTable ==
    "StreamingConvert" \in Range(visited) =>
      /\ info.has_alpha => plan.use_transparency /\ ~plan.convert_black
      /\ (~info.has_alpha /\ black_ratio.num * 10 > black_ratio.den) =>
            plan.use_transparency /\ plan.convert_black
      /\ (~info.has_alpha /\ black_ratio.num * 10 <= black_ratio.den) =>
            ~plan.use_transparency /\ ~plan.convert_black
      /\ plan.convert_black => plan.use_transparency
      /\ (plan.convert_black /\ pc = "add") =>
            LET src == yielded[Len(yielded)]
            IN  \A p \in 1..NumPixels(frame) :
                  Chan(frame, p, 4) =
                     IF \A c \in 1..3 : Chan(src, p, c) <= 16
                     THEN 0 ELSE Chan(src, p, 4)

\* C7 witness: a source without alpha whose black ratio is exactly 0.10 has
\* been planned without transparency.
C7_Witness ==
    /\ "StreamingConvert" \in Range(visited)
    /\ ~info.has_alpha
    /\ black_ratio.den > 0
    /\ black_ratio.num * 10 = black_ratio.den
    /\ ~plan.use_transparency

\* C8: close on a GifWriter to which no frame was ever added reports an error:
\* close never returns normally with writer.frame_count = 0.
C8_CloseFailsWithoutFrames ==
    pc \in {"stat", "done"} => wFrameCount > 0

\* C9: close closes the encoder's stdin before it waits for the exit, fails
\* with EncoderFailed carrying the exit code exactly when that code is
\* non-zero, and a conversion reaches Done only if the encoder exited with
\* code 0.
C9_CloseChecksExitCode ==
    /\ pc = "wait" => encStdin = "closed"
    /\ err.kind = "EncoderFailed" =>
          encProc = "exited" /\ encExit # 0 /\ err.code = encExit
    /\ (pc \in {"stat", "done"} /\ encProc # "none") =>
          encProc = "exited" /\ encExit = 0
    /\ pc = "done" => encProc = "exited" /\ encExit = 0

\* C10: an exception raised in the streaming loop ends it with a
\* FrameProcessingError whose index is the number of frames already forwarded
\* to the encoder (the 0-based index of the frame in work), and after the
\* abort no further frame is pulled or written.
C10_AbortCarriesFrameIndex ==
    /\ [](/\ err.kind = "FrameProcessingError" =>
                /\ err.index = Len(encIn)
                /\ err.index = wFrameCount
                /\ Len(yielded) \in {err.index, err.index + 1}
                /\ pc \in {"except", "failed"}
          /\ (Len(visited) >= 2 /\ visited[Len(visited)] = "Failed"
                /\ visited[Len(visited) - 1] = "StreamingConvert") =>
                err.kind = "FrameProcessingError")
    /\ [][err.kind = "FrameProcessingError" =>
             yielded' = yielded /\ encIn' = encIn /\ decPos' = decPos]_vars

\* C10 witness: the write of the second frame found the encoder dead and the
\* job failed with index 1.
C10_Witness ==
    /\ pc = "failed"
    /\ err.kind = "FrameProcessingError"
    /\ err.cause = "FFmpeg process died"
    /\ err.index = 1
    /\ Len(yielded) = 2

ProbeFailed ==
    probe # NoProbe /\ (probe.returncode # 0 \/ ~probe.parsable \/ probe.streams = 0)

\* C13: probing fails with ProbeError when ffprobe exits non-zero, emits
\* unparsable output, or reports no video stream; such a failure moves the job
\* from Probing directly to Failed with that error, and neither the sampling
\* process nor the decoder nor the encoder is ever spawned for the file.
C13_ProbeFailureIsFatal ==
    /\ ProbeFailed =>
          /\ err.kind = "ProbeError"
          /\ err.cause = (IF probe.returncode # 0 THEN "ffprobe failed"
                          ELSE IF ~probe.parsable
                          THEN "Failed to parse ffprobe output"
                          ELSE "No video stream found in file")
          /\ pc \in {"except", "failed"}
          /\ visited = <<"Probing", "Failed">>
          /\ info = NoInfo
          /\ sample = NoSample
          /\ gen = "unstarted" /\ decProc = "none" /\ encProc = "none"
    /\ err.kind = "ProbeError" => ProbeFailed

\* C13 witness: ffprobe ran, its output parsed, but it listed no video stream;
\* the job has failed.
C13_Witness ==
    /\ pc = "failed"
    /\ err.kind = "ProbeError"
    /\ probe = [returncode |-> 0, parsable |-> TRUE, streams |-> 0]

\* C17: every frame written to the encoder's input has the channel count the
\* encoder process was started with (4 when use_transparency, else 3) and the
\* width and height of the first frame, so each write is exactly
\* width*height*channels bytes, whatever has_alpha and convert_black are.
C17_WritesMatchEncoderFormat ==
    /\ encProc # "none" =>
          /\ wShape.channels = (IF plan.use_transparency THEN 4 ELSE 3)
          /\ wShape.width = yielded[1].w /\ wShape.height = yielded[1].h
    /\ \A k \in 1..Len(encIn) :
          Len(encIn[k]) = wShape.width * wShape.height * wShape.channels
    /\ pc = "write" =>
          /\ frame.c = wShape.channels
          /\ frame.w = wShape.width /\ frame.h = wShape.height
          /\ Len(frame.px) = frame.w * frame.h * frame.c

\* C17 witness: a source without alpha whose black is made transparent: the
\* decoder was asked for rgba, the encoder started with rgba, and two frames
\* of width*height*4 bytes were written.
C17_Witness ==
    /\ ~info.has_alpha /\ plan.convert_black
    /\ Len(encIn) = 2
    /\ wShape.channels = 4
    /\ Len(encIn[2]) = info.width * info.height * 4

\* What the loop's body makes of a frame the decoder yielded.
Processed(f) ==
    NormalizeForWriter(IF plan.convert_black
                       THEN convert_black_to_transparent(f, BlackThreshold)
                       ELSE f,
                       plan.use_transparency)

\* C18: at every point of a conversion the frames written to the encoder are
\* a prefix, in the same order with none dropped or duplicated, of the frames
\* pulled from the decoder (each as the loop's body transformed it), at most
\* one frame is pulled but not yet written, and on successful completion the
\* two sequences have equal length.
C18_WrittenIsPrefixOfPulled ==
    /\ Len(encIn) <= Len(yielded)
    /\ Len(yielded) <= Len(encIn) + 1
    /\ \A k \in 1..Len(encIn) : encIn[k] = Processed(yielded[k]).px
    /\ Len(encIn) = wFrameCount /\ Len(encIn) = frame_count
    /\ pc \in {"pull", "close", "wait", "stat", "done"} => Len(encIn) = Len(yielded)

\* C18 witness: three frames were pulled and written and the conversion
\* succeeded.
C18_Witness ==
    /\ pc = "done"
    /\ Len(yielded) = 3
    /\ Len(encIn) = 3
    /\ encIn[1] # encIn[2]

\* C19: a conversion whose decoder yields zero frames never ends in Done: the
\* encoder process is never spawned, finalization finds no output file, the
\* job ends in Failed with the error propagated, and no file is left at the
\* output path.
C19_ZeroFramesNeverDone ==
    (gen # "unstarted" /\ yielded = << >>) =>
       /\ encProc = "none"
       /\ pc # "done"
       /\ pc = "failed" => err.kind # "none" /\ ~fileExists

\* C19 (the part that holds): without a file at the output path beforehand, a
\* conversion whose decoder yields zero frames spawns no encoder, ends in
\* Failed and leaves no file.
C19_ZeroFramesFailWithoutOldFile ==
    (gen # "unstarted" /\ yielded = << >> /\ ~hadOutput) =>
       /\ encProc = "none"
       /\ pc # "done"
       /\ pc = "failed" => err.kind # "none" /\ ~fileExists

\* C20: when a conversion fails, a file at the output path is removed even if
\* it already existed before the conversion started and even if the failure
\* happened before any encoder was spawned: after any failed
\* convert_webm_to_gif the output path is empty whatever it held beforehand.
C20_FailureEmptiesOutputPath ==
    \A before \in BOOLEAN :
       (pc = "failed" /\ hadOutput = before) => ~fileExists

\* C20 (the part that holds): after a failure before any encoder was spawned
\* the output path is empty, also when it held a file before.
C20_EmptyWhenNoEncoderSpawned ==
    (pc = "failed" /\ encProc = "none") => ~fileExists

GeneratorFinished == {"exhausted", "closed", "raised"}

\* C21: provided the decoder process eventually closes its output, and the
\* encoder process keeps accepting writes and eventually exits once its input
\* is closed, every conversion eventually reaches Done or Failed; the
\* decoder's shutdown is bounded (the step that finishes the generator leaves
\* the child terminated or killed, without waiting for the child to act),
\* whereas the wait at close has no bound of its own: the thread stays in it
\* for as long as the encoder has not exited.
C21_ConversionTerminates ==
    /\ <>Ended
    /\ [][(gen' \in GeneratorFinished /\ gen \notin GeneratorFinished) =>
            /\ decProc' # "running"
            /\ decProc = "running" => decSig' \in {"term", "kill"}]_vars
    /\ [][(pc = "wait" /\ encProc # "exited") => pc' = "wait"]_vars

\* C21 witness: the thread is blocked in the wait of close: the encoder, which
\* received a frame and whose input is closed, has not exited yet, and the
\* decoder was shut down by a signal.
C21_Witness ==
    /\ pc = "wait"
    /\ encProc = "running"
    /\ encStdin = "closed"
    /\ Len(encIn) >= 1
    /\ decSig \in {"term", "kill"}

\* ---------------------------------------------------------------- masking
\* convert_black_to_transparent followed on its own, on every small frame.
MaskColours == {0, 17}
MaskAlphas == {17, 255}
MaskThresholds == {16, 17}

\* The pixels a frame of c channels is made of.
MaskPixelChoices(c) ==
    IF c = 3 THEN [1..3 -> MaskColours]
    ELSE {<<q[1], q[2], q[3], a>> : q \in [1..3 -> MaskColours], a \in MaskAlphas}

ShapeFrames(h, w, c) ==
    {MkFrame(h, w, c, [i \in 1..(h * w * c) |->
                          pixels[((i - 1) \div c) + 1][((i - 1) % c) + 1]]) :
        pixels \in [1..(h * w) -> MaskPixelChoices(c)]}

MaskShapes ==
    {s \in (1..MaskPixels) \X (1..MaskPixels) : s[1] * s[2] <= MaskPixels}

MaskFrames ==
    UNION {ShapeFrames(s[1], s[2], c) : s \in MaskShapes, c \in {3, 4}}

InitMask ==
    /\ MainIdle
    /\ ConvStart(FALSE, FALSE, 0)
    /\ pData = NoData
    /\ pInfo = NoVideoInfo
    /\ mFrame \in MaskFrames
    /\ mThreshold \in MaskThresholds
    /\ mOut = << >>

\* frame = convert_black_to_transparent(frame, threshold), on the input
\* frame first and then on the previous result.
ApplyMask ==
    /\ mFrame # NoFrame
    /\ Len(mOut) < MaxApplications
    /\ mOut' = Append(mOut, convert_black_to_transparent(
                               IF mOut = << >> THEN mFrame ELSE mOut[Len(mOut)],
                               mThreshold))
    /\ UNCHANGED <<convVars, mainVars, mFrame, mThreshold, pData, pInfo>>

NextMask == ApplyMask

SpecMask == InitMask /\ [][NextMask]_vars

\* Input of application k of the masking.
MaskIn(k) == IF k = 1 THEN mFrame ELSE mOut[k - 1]

\* The three colour bytes of pixel p of frame f are all <= t.
Matches(f, p, t) ==
    /\ f.px[(p - 1) * f.c + 1] <= t
    /\ f.px[(p - 1) * f.c + 2] <= t
    /\ f.px[(p - 1) * f.c + 3] <= t

\* C14: masking with threshold t sets alpha to 0 for exactly the pixels whose
\* three colour channels are all <= t and leaves everything else unchanged:
\* the colour bytes of every pixel, the alpha of every other pixel (255 where
\* the input had no alpha channel), and the frame's width and height; so an
\* all-black frame comes out with an all-zero alpha plane and its colour
\* bytes unchanged.
C14_MaskOnlyBlackPixels ==
    \A k \in 1..Len(mOut) :
       LET in == MaskIn(k)
           out == mOut[k]
       IN  /\ out.h = in.h /\ out.w = in.w /\ out.c = 4
           /\ Len(out.px) = in.h * in.w * 4
           /\ \A p \in 1..(in.h * in.w) :
                 /\ \A c \in 1..3 :
                       out.px[(p - 1) * 4 + c] = in.px[(p - 1) * in.c + c]
                 /\ out.px[p * 4] =
                       IF Matches(in, p, mThreshold) THEN 0
                       ELSE IF in.c = 4 THEN in.px[p * 4] ELSE 255
           /\ (\A p \in 1..(in.h * in.w), c \in 1..3 :
                  in.px[(p - 1) * in.c + c] = 0)
                => \A p \in 1..(in.h * in.w) : out.px[p * 4] = 0

\* C14 witness: a 4-channel frame was masked; one pixel with colour bytes at
\* the threshold lost its alpha, another just above it kept its alpha of 17.
C14_Witness ==
    /\ Len(mOut) >= 1
    /\ mFrame.c = 4 /\ NumPixels(mFrame) = 2
    /\ mThreshold = 16
    /\ mFrame.px = <<0, 0, 0, 255, 17, 0, 0, 17>>
    /\ mOut[1].px = <<0, 0, 0, 0, 17, 0, 0, 17>>

\* C15: black masking is idempotent: for every 3- or 4-channel frame and
\* every threshold, applying it twice with the same threshold gives the same
\* frame as applying it once.
C15_MaskIdempotent ==
    \A k \in 2..Len(mOut) : mOut[k] = mOut[1]

\* C15 witness: a 3-channel frame was masked twice, and the first pass made
\* one of its two pixels transparent and left the other opaque.
C15_Witness ==
    /\ Len(mOut) = 2
    /\ mFrame.c = 3 /\ NumPixels(mFrame) = 2
    /\ mOut[1].px[4] = 0 /\ mOut[1].px[8] = 255
    /\ mOut[1] # AddOpaqueAlpha(mFrame)

\* ----------------------------------------------------------------- get_info
\* get_info followed on its own from the frame-rate parse on, on every small
\* combination of the fields it reads.
RateChoices ==
    {[form |-> "absent", num |-> 0, den |-> 0]}
       \cup {[form |-> "ratio", num |-> n, den |-> d] :
                n \in 0..MaxRate, d \in 0..MaxRate}
       \cup {[form |-> "plain", num |-> n, den |-> 1] : n \in 0..MaxRate}

DurationChoices == {Absent} \cup {Present(v) : v \in (0 - 1)..MaxDuration}

FrameCountChoices == {Absent} \cup {Present(n) : n \in 0..MaxFrames}

InitInfo ==
    /\ MainIdle
    /\ ConvStart(TRUE, FALSE, 0)
    /\ mFrame = NoFrame
    /\ mThreshold = 0
    /\ mOut = << >>
    /\ pData \in [rate : RateChoices, format_duration : DurationChoices,
                  stream_duration : DurationChoices,
                  nb_frames : FrameCountChoices]
    /\ pInfo = NoVideoInfo

\* get_info runs from line 130 to its return or to the exception.
ReturnInfo ==
    /\ pData # NoData
    /\ pInfo.status = "none"
    /\ pInfo' = get_info(pData)
    /\ UNCHANGED <<convVars, mainVars, mFrame, mThreshold, mOut, pData>>

NextInfo == ReturnInfo

SpecInfo == InitInfo /\ [][NextInfo]_vars

\* C16: every VideoInfo that get_info returns has fps > 0 and duration >= 0,
\* for every frame-rate string (num/den with den = 0, num/den with num = 0,
\* a plain number) and every combination of present or absent format
\* duration, stream duration and frame count.
C16_InfoInvariant ==
    pInfo.status = "returned" =>
       /\ pInfo.fps.num > 0 /\ pInfo.fps.den > 0
       /\ pInfo.duration.num >= 0 /\ pInfo.duration.den > 0

\* C16 (the part that holds): a returned duration is never negative, and a
\* frame rate with a non-zero numerator gives fps > 0.
C16_DurationNonNegative ==
    pInfo.status = "returned" =>
       /\ pInfo.duration.num >= 0 /\ pInfo.duration.den > 0
       /\ pInfo.fps.den > 0
       /\ (pData.rate.form = "absent" \/ pData.rate.num > 0 \/ pData.rate.den = 0)
             => pInfo.fps.num > 0

\* --------------------------------------------------------------- main()
\* Most inputs named on the command line, most entries of the directory.
MaxArgs == 2
MaxDirFiles == 2

\* What a command-line input can be: a path that does not exist, a directory,
\* or a file with one of these suffixes.
ArgChoices ==
    {[kind |-> "missing", ext |-> ".webm"], [kind |-> "dir", ext |-> ""]}
       \cup {[kind |-> "file", ext |-> e] : e \in {".webm", ".tgs", ".txt"}}

\* A directory entry: its suffix and the state of its .gif counterpart.
DirChoices ==
    [ext : {".webm", ".tgs"}, gif : {"none", "nonempty"}]

SeqsUpTo(S, n) == UNION {[1..k -> S] : k \in 0..n}

\* find_files_to_convert: the entries with a wanted suffix whose .gif is
\* missing or empty, in name order (entries are numbered in name order).
find_files_to_convert(files, file_extensions) ==
    SelectSeq([j \in 1..Len(files) |-> j],
              LAMBDA j : /\ files[j].ext \in file_extensions
                         /\ files[j].gif # "nonempty")

\* What one call of process_single_file can do to an input with suffix ext
\* whose output file is in state gif: its return value, whether the call
\* wrote to the output path, and the state it leaves the output file in.
\*  .webm: convert_webm_to_gif returns with a new file, or returns with the
\*         file that was already there (no frame decoded), or raises after
\*         its except clause removed the file;
\*  .tgs:  convert_tgs_to_gif returns with a new file, or raises before or
\*         after export_gif wrote to the output path (nothing is removed);
\*  other: "Unsupported file type", nothing is touched.
process_single_file(ext, gif) ==
    CASE ext = ".webm" ->
            {[ok |-> TRUE, wrote |-> TRUE, gif |-> "nonempty"]}
               \cup {[ok |-> TRUE, wrote |-> FALSE, gif |-> gif] : x \in {gif} \ {"none"}}
               \cup {[ok |-> FALSE, wrote |-> w, gif |-> "none"] : w \in BOOLEAN}
      [] ext = ".tgs" ->
            {[ok |-> TRUE, wrote |-> TRUE, gif |-> "nonempty"],
             [ok |-> FALSE, wrote |-> FALSE, gif |-> gif]}
               \cup {[ok |-> FALSE, wrote |-> TRUE, gif |-> g] : g \in {"empty", "nonempty"}}
      [] OTHER ->
            {[ok |-> FALSE, wrote |-> FALSE, gif |-> gif]}

\* `if process_single_file(...): successful += 1`
Count(n, ok) == IF ok THEN n + 1 ELSE n

\* return code of the single-file branch (lines 564-567)
SingleExit(ok) == IF ok THEN 0 ELSE 1

\* No conversion is modelled step by step while main() is followed.
ConvIdle == ConvStart(FALSE, FALSE, 0)

InitMain ==
    /\ ConvIdle
    /\ FnIdle
    /\ args \in [input : SeqsUpTo(ArgChoices, MaxArgs), output : BOOLEAN]
    /\ dirFiles \in SeqsUpTo(DirChoices, MaxDirFiles)
    /\ argGif = [i \in 1..Len(args.input) |-> "none"]
    /\ mainPc = "start"
    /\ argIdx = 0
    /\ work = << >>
    /\ discovered = << >>
    /\ attempts = << >>
    /\ successful = 0
    /\ exitCode = 0 - 1

\* file_extensions as main() sets it without --tgs-only / --webm-only
FileExtensions == {".tgs", ".webm"}

DirId(a, j) == [arg |-> a, file |-> j]

\* return <code>
Exit(code) ==
    /\ mainPc' = "exit"
    /\ exitCode' = code

\* One call of process_single_file on directory entry j (of input a),
\* with outcome r.
ProcessDirFile(a, j, r) ==
    /\ attempts' = Append(attempts, [id |-> DirId(a, j), ok |-> r.ok,
                                     wrote |-> r.wrote, gif |-> r.gif])
    /\ dirFiles' = [dirFiles EXCEPT ![j].gif = r.gif]
    /\ successful' = Count(successful, r.ok)

\* One call of process_single_file on the named input a, with outcome r.
ProcessNamed(a, r) ==
    /\ attempts' = Append(attempts, [id |-> DirId(a, 0), ok |-> r.ok,
                                     wrote |-> r.wrote, gif |-> r.gif])
    /\ argGif' = [argGif EXCEPT ![a] = r.gif]
    /\ successful' = Count(successful, r.ok)

\* main() up to the choice of its branch (lines 535-543, 553-562, 568-571).
MainStart ==
    /\ mainPc = "start"
    /\ IF args.input = << >>
       THEN LET files == find_files_to_convert(dirFiles, FileExtensions)
            IN  /\ work' = files
                /\ discovered' = [k \in 1..Len(files) |-> DirId(0, files[k])]
                /\ argIdx' = argIdx
                /\ IF files = << >> THEN Exit(0)
                   ELSE mainPc' = "cwd" /\ exitCode' = exitCode
       ELSE IF Len(args.input) = 1 /\ args.output
       THEN /\ UNCHANGED <<work, discovered>>
            /\ argIdx' = 1
            /\ IF args.input[1].kind = "missing" THEN Exit(1)
               ELSE mainPc' = "single" /\ exitCode' = exitCode
       ELSE /\ UNCHANGED <<work, discovered, exitCode>>
            /\ argIdx' = 1
            /\ mainPc' = "args"
    /\ UNCHANGED <<convVars, fnVars, args, dirFiles, argGif, attempts, successful>>

\* The loop over the current directory (lines 547-551), then `return 0`.
CwdFile ==
    /\ mainPc = "cwd"
    /\ IF work = << >>
       THEN /\ Exit(0)
            /\ UNCHANGED <<work, dirFiles, attempts, successful>>
       ELSE /\ \E r \in process_single_file(dirFiles[Head(work)].ext,
                                            dirFiles[Head(work)].gif) :
                  ProcessDirFile(0, Head(work), r)
            /\ work' = Tail(work)
            /\ UNCHANGED <<mainPc, exitCode>>
    /\ UNCHANGED <<convVars, fnVars, args, argGif, argIdx, discovered>>

\* Single input with --output (lines 564-567).
SingleFile ==
    /\ mainPc = "single"
    /\ \E r \in process_single_file(args.input[1].ext, argGif[1]) :
          /\ ProcessNamed(1, r)
          /\ Exit(SingleExit(r.ok))
    /\ discovered' = Append(discovered, DirId(1, 0))
    /\ UNCHANGED <<convVars, fnVars, args, dirFiles, argIdx, work>>

\* One turn of `for input_arg in args.input` (lines 573-591), then `return 0`.
ArgNext ==
    /\ mainPc = "args"
    /\ IF argIdx > Len(args.input)
       THEN /\ Exit(0)
            /\ UNCHANGED <<argIdx, work, discovered, attempts, argGif, successful>>
       ELSE LET a == args.input[argIdx]
            IN  CASE a.kind = "missing" ->
                       /\ argIdx' = argIdx + 1
                       /\ UNCHANGED <<mainPc, exitCode, work, discovered,
                                      attempts, argGif, successful>>
                  [] a.kind = "dir" ->
                       LET files == find_files_to_convert(dirFiles, FileExtensions)
                       IN  /\ work' = files
                           /\ discovered' = discovered \o
                                 [k \in 1..Len(files) |-> DirId(argIdx, files[k])]
                           /\ mainPc' = "dir"
                           /\ UNCHANGED <<argIdx, exitCode, attempts, argGif,
                                          successful>>
                  [] a.kind = "file" ->
                       /\ \E r \in process_single_file(a.ext, argGif[argIdx]) :
                             ProcessNamed(argIdx, r)
                       /\ discovered' = Append(discovered, DirId(argIdx, 0))
                       /\ argIdx' = argIdx + 1
                       /\ UNCHANGED <<mainPc, exitCode, work>>
    /\ UNCHANGED <<convVars, fnVars, args, dirFiles>>

\* One turn of `for file_input, file_output in dir_files` (lines 585-587).
DirFile ==
    /\ mainPc = "dir"
    /\ IF work = << >>
       THEN /\ mainPc' = "args"
            /\ argIdx' = argIdx + 1
            /\ UNCHANGED <<work, dirFiles, attempts, successful>>
       ELSE /\ \E r \in process_single_file(dirFiles[Head(work)].ext,
                                            dirFiles[Head(work)].gif) :
                  ProcessDirFile(argIdx, Head(work), r)
            /\ work' = Tail(work)
            /\ UNCHANGED <<mainPc, argIdx>>
    /\ UNCHANGED <<convVars, fnVars, args, argGif, discovered, exitCode>>

NextMain ==
    \/ MainStart
    \/ CwdFile
    \/ SingleFile
    \/ ArgNext
    \/ DirFile

SpecMain == InitMain /\ [][NextMain]_vars

\* A single explicitly named input (a file path, present or not).
SingleNamed == Len(args.input) = 1 /\ args.input[1].kind # "dir"

\* Batch mode: the current directory, a named directory, or several inputs.
BatchMode ==
    \/ args.input = << >>
    \/ Len(args.input) > 1
    \/ Len(args.input) = 1 /\ args.input[1].kind = "dir" /\ ~args.output

AttemptIds == [k \in 1..Len(attempts) |-> attempts[k].id]

\* C11 (first part): in batch mode every discovered file is attempted exactly
\* once, in discovery order, whatever the outcome of earlier files, and the
\* reported success count is the number of files whose conversion succeeded.
C11_EveryFileAttemptedOnce ==
    BatchMode =>
      /\ Len(attempts) <= Len(discovered)
      /\ AttemptIds = SubSeq(discovered, 1, Len(attempts))
      /\ successful = Cardinality({k \in 1..Len(attempts) : attempts[k].ok})
      /\ mainPc = "exit" => Len(attempts) = Len(discovered)

\* C11: in batch mode a failure of one file's conversion never aborts the
\* batch: every discovered file is attempted exactly once, in order, the
\* failed file's partial output is cleaned up, and the reported success count
\* equals the number of files whose conversion succeeded.
C11_BatchSurvivesFailures ==
    /\ C11_EveryFileAttemptedOnce
    /\ BatchMode =>
          \A k \in 1..Len(attempts) :
             (~attempts[k].ok /\ attempts[k].wrote) => attempts[k].gif = "none"

\* C12: the exit code is 0 on full success, 1 whenever a single explicitly
\* named input is missing or its conversion fails (with or without an
\* explicit output path), and always 0 in batch mode.
C12_ExitCodes ==
    mainPc = "exit" =>
      /\ ((\A k \in 1..Len(attempts) : attempts[k].ok)
            /\ (\A i \in 1..Len(args.input) : args.input[i].kind # "missing"))
           => exitCode = 0
      /\ (SingleNamed /\ (args.input[1].kind = "missing"
                            \/ \E k \in 1..Len(attempts) : ~attempts[k].ok))
           => exitCode = 1
      /\ BatchMode => exitCode = 0

\* C12 (as the code has it): like C12, but a single named input that is
\* missing or fails gives 1 only when --output was given.
C12_ExitCodesWithOutput ==
    mainPc = "exit" =>
      /\ ((\A k \in 1..Len(attempts) : attempts[k].ok)
            /\ (\A i \in 1..Len(args.input) : args.input[i].kind # "missing"))
           => exitCode = 0
      /\ (SingleNamed /\ args.output
             /\ (args.input[1].kind = "missing"
                   \/ \E k \in 1..Len(attempts) : ~attempts[k].ok))
           => exitCode = 1
      /\ BatchMode => exitCode = 0

====
